---- MODULE Spec2Model ----
(***************************************************************************)
(* BigQuery MCP server: the credential-backed client lifecycle of          *)
(* BigQueryService (bigquery_service.py) and the two tools of server.py    *)
(* that call it, as a state machine of concurrent invocations.             *)
(*                                                                         *)
(* Every process of Procs is one logical task: a tool invocation (whose    *)
(* service call runs on a worker thread through asyncio.to_thread), the    *)
(* server's lifespan (service construction, shutdown), or a direct call    *)
(* of refresh_client.  A step of a process is one lock operation, one      *)
(* critical section, one remote call or one loop iteration of the code.    *)
(***************************************************************************)
EXTENDS Integers, Sequences, FiniteSets, TLC

\* ------------------------------------------------------------------ bounds
\* Spec: two concurrent tasks over small result sets.
MaxHandles == 3      \* client handles ever built (successful credential loads)
MaxChunk == 2        \* ROW_CHUNK_SIZE ranges over 1..MaxChunk
MaxLimit == 2        \* DEFAULT_MAX_ROWS
MaxAvail == 3        \* rows a result set can hold
\* SpecSolo: one task at a time over larger result sets.
MaxChunkSolo == 3
MaxLimitSolo == 5
MaxAvailSolo == 6

Procs == {"t1", "t2"}
Handles == 1..MaxHandles

\* self._client = None / self._credentials_info = None
NoHandle == 0
NoCreds == "None"
\* the RLock has no owner
NoOwner == "free"

\* Credential payloads the secret store can hold: with and without project_id.
Payloads == {"sa_with_project_id", "sa_without_project_id"}
HasProjectId(creds) == creds = "sa_with_project_id"

\* Status codes a GoogleAPICallError of the warehouse can carry.
ApiErrorCodes == {401, 403, 500}

\* Optional[int]: None is <<>>, the integer n is <<n>>.
None == << >>
Some(n) == <<n>>

FallbackMaxRows == 10000

VARIABLES
    CONFIG,            \* server.CONFIG is loaded (not None)
    BIGQUERY,          \* server.BIGQUERY is set (not None)
    env,               \* the environment load_config reads: project, chunk size, max rows
    client,            \* BigQueryService._client
    credentials_info,  \* BigQueryService._credentials_info
    client_lock,       \* owner of BigQueryService._client_lock
    hstate,            \* each handle: "unborn" (not built yet), "live", "closed"
    hcreds,            \* the payload each handle was built from
    pc,                \* each process's position
    op,                \* the top-level operation each process runs
    cl,                \* local `client` of get_table_schema / execute_query
    newcl,             \* local `client` of refresh_client (the handle just built)
    newcreds,          \* local `credentials_info` of refresh_client
    q,                 \* locals of the tool call and of its service call
    exc,               \* the exception that left the top-level operation, "none" if none
    resp,              \* the tool's response envelope
    fs,                \* the call of SecretsManagerProvider.fetch_service_account
    pure               \* a call of validate_sql_query or _build_table_reference

vars == <<CONFIG, BIGQUERY, env, client, credentials_info, client_lock, hstate, hcreds,
          pc, op, cl, newcl, newcreds, q, exc, resp, fs, pure>>

service == <<client, credentials_info, hstate, hcreds>>
locals == <<cl, newcl, newcreds>>
\* what no step of the service or of the tools touches
static == <<env, fs, pure>>
\* ------------------------------------------------------------- envelopes
NoResp == [data |-> FALSE, error |-> "none"]
success_response == [data |-> TRUE, error |-> "none"]
error_response(code) == [data |-> FALSE, error |-> code]

\* ------------------------------------------------- a tool call's locals
\* sql_ok, rows_limit: what the tool's validation found; lookups: the calls of
\* _require_client; remote: how the warehouse answered get_table; the rest are
\* execute_query's locals and counts of its remote calls.
q0 == [sql_ok |-> FALSE, rows_limit |-> 0, lookups |-> 0, remote |-> "none",
       sql |-> << >>, max_rows |-> 0, submits |-> 0, refreshes |-> 0,
       err_code |-> 0, failed_in |-> "none", refresh_outcome |-> "none",
       avail |-> 0, pos |-> 0,
       row_count |-> 0, chunk_index |-> 0, chunks |-> << >>, current_chunk |-> << >>,
       total_rows |-> None, truncated |-> FALSE, raised |-> "none", returned |-> FALSE]

\* ------------------------------------------- fetch_service_account's locals
\* response.get(key) found no value
Missing == "<None>"

\* attempt: the loop variable; calls: the calls of get_secret_value; sleeps:
\* the backoffs slept, in milliseconds; answers: what the store answered to
\* each call; returned / raised: how the call ended.
fs0 == [pc |-> "idle", attempt |-> 0, calls |-> 0, sleeps |-> << >>, answers |-> << >>,
        last_error |-> Missing, returned |-> NoCreds, raised |-> "none"]

\* ------------------------------------------------------ pure function calls
pure0 == [fn |-> "none", applied |-> FALSE,
          sql_query |-> << >>, validated |-> [ok |-> FALSE, error |-> "none", sql |-> << >>],
          dataset_id |-> << >>, table_name |-> << >>, default_project |-> << >>,
          table_ref |-> << >>, max_rows |-> None]

IsLive(h) == hstate[h] = "live"
IsClosed(h) == hstate[h] = "closed"

\* The state once server.py is imported: nothing is loaded, no service exists.
\* The environment holds any valid configuration (config._parse_int accepts
\* positive integers only).
InitWith(projects, chunk_sizes, limits) ==
    /\ CONFIG = FALSE
    /\ BIGQUERY = FALSE
    /\ env \in [bigquery_project : projects,
                row_chunk_size : chunk_sizes,
                default_max_rows : limits]
    /\ client = NoHandle
    /\ credentials_info = NoCreds
    /\ client_lock = NoOwner
    /\ hstate = [h \in Handles |-> "unborn"]
    /\ hcreds = [h \in Handles |-> NoCreds]
    /\ pc = [p \in Procs |-> "idle"]
    /\ op = [p \in Procs |-> "none"]
    /\ cl = [p \in Procs |-> NoHandle]
    /\ newcl = [p \in Procs |-> NoHandle]
    /\ newcreds = [p \in Procs |-> NoCreds]
    /\ q = [p \in Procs |-> q0]
    /\ exc = [p \in Procs |-> "none"]
    /\ resp = [p \in Procs |-> NoResp]
    /\ fs = fs0

\* Spec: BIGQUERY_PROJECT is unset, so that the project comes from the secret.
Init == InitWith({FALSE}, 1..MaxChunk, {MaxLimit}) /\ pure = pure0

\* ------------------------------------------------------ exception mapping
\* exceptions.py: every error of the server derives from MCPServerError.
MCPServerError == {"ConfigurationError", "CredentialRetrievalError", "CredentialRefreshError",
                   "TableNotFoundError", "QueryValidationError", "QueryExecutionError",
                   "HealthCheckError"}

\* The except clauses around the service call of tool o: whether one catches e.
ToolCatches(o, e) ==
    CASE o = "tool_schema" /\ e = "TableNotFoundError" -> TRUE
      [] o = "tool_schema" /\ e \in MCPServerError -> TRUE
      [] o = "tool_query" /\ e = "QueryExecutionError" -> TRUE
      [] OTHER -> FALSE

\* The error code of the envelope the catching clause builds.
ToolErrorCode(o, e) ==
    CASE o = "tool_schema" /\ e = "TableNotFoundError" -> "TABLE_NOT_FOUND"
      [] o = "tool_schema" -> "SCHEMA_ERROR"
      [] OTHER -> "QUERY_FAILURE"

\* The operation o of p ends: its service call raised e ("none": it returned),
\* and a tool answers with an envelope unless none of its clauses catches e.
\* qp is the value of p's execute_query locals at that point; the locals that
\* held handles and payloads are gone with the call, and so are the rows of a
\* query that raised.
LeaveAs(p, o, e, qp) ==
    /\ pc' = [pc EXCEPT ![p] = "done"]
    /\ q' = [q EXCEPT ![p] =
                IF e = "none"
                THEN [qp EXCEPT !.returned = TRUE]
                ELSE [q0 EXCEPT !.raised = e, !.submits = qp.submits,
                                !.refreshes = qp.refreshes, !.err_code = qp.err_code,
                                !.failed_in = qp.failed_in, !.max_rows = qp.max_rows,
                                !.refresh_outcome = qp.refresh_outcome,
                                !.sql_ok = qp.sql_ok, !.rows_limit = qp.rows_limit,
                                !.lookups = qp.lookups, !.remote = qp.remote]]
    /\ cl' = [cl EXCEPT ![p] = NoHandle]
    /\ newcl' = [newcl EXCEPT ![p] = NoHandle]
    /\ newcreds' = [newcreds EXCEPT ![p] = NoCreds]
    /\ IF e # "none" /\ ToolCatches(o, e)
       THEN /\ resp' = [resp EXCEPT ![p] = error_response(ToolErrorCode(o, e))]
            /\ exc' = [exc EXCEPT ![p] = "none"]
       ELSE /\ resp' = [resp EXCEPT ![p] =
                          IF e = "none" /\ o \in {"tool_schema", "tool_query"}
                          THEN success_response ELSE NoResp]
            /\ exc' = [exc EXCEPT ![p] = e]

Leave(p, e, qp) == LeaveAs(p, op[p], e, qp)

\* --------------------------------------------------------- refresh_client
\* A handle can still be built: the bound on the handles of one run.
CanBuild ==
    Cardinality({h \in Handles : hstate[h] # "unborn"})
      + Cardinality({r \in Procs : pc[r] = "r_build"}) < MaxHandles

\* The next handle bigquery.Client(...) returns.
FreshHandle ==
    CHOOSE h \in Handles :
        hstate[h] = "unborn" /\ \A g \in Handles : hstate[g] = "unborn" => h <= g

\* How refresh_client's caller goes on when refresh_client raised e ("none":
\* it returned).  __init__ and a direct call let e through; execute_query's
\* _maybe_refresh_on_auth_error swallows CredentialRefreshError only, and
\* execute_query then raises QueryExecutionError.
\* The mutant: after a refresh that succeeded, execute_query starts over.
AfterRefresh_Retry(p, e) ==
    IF op[p] = "tool_query" /\ e = "none"
    THEN /\ pc' = [pc EXCEPT ![p] = "rc_lock"]
         /\ UNCHANGED <<q, exc, resp, locals>>
    ELSE Leave(p, IF op[p] = "tool_query" THEN "QueryExecutionError" ELSE e, q[p])

AfterRefresh(p, e) ==
    IF op[p] = "tool_query"
    THEN LET qp == [q[p] EXCEPT !.refresh_outcome = IF e = "none" THEN "ok" ELSE e]
         IN  IF e \in {"none", "CredentialRefreshError"}
             THEN Leave(p, "QueryExecutionError", qp)
             ELSE Leave(p, e, qp)
    ELSE Leave(p, e, q[p])

\* The mutant: the installed handle is closed and cleared before the loader
\* is called, so that a loader failure leaves the service without a handle.
RefreshLoad_ClosesFirst(p) ==
    /\ pc[p] = "r_load"
    /\ \/ /\ CanBuild
          /\ \E creds \in Payloads :
               newcreds' = [newcreds EXCEPT ![p] = creds]
          /\ pc' = [pc EXCEPT ![p] = "r_build"]
          /\ UNCHANGED <<q, exc, resp, cl, newcl, service>>
       \/ /\ AfterRefresh(p, "CredentialRefreshError")
          /\ hstate' = IF client # NoHandle
                       THEN [hstate EXCEPT ![client] = "closed"] ELSE hstate
          /\ client' = NoHandle
          /\ UNCHANGED <<credentials_info, hcreds>>
    /\ UNCHANGED <<CONFIG, BIGQUERY, static, client_lock, op>>

\* credentials_info = self._credential_loader(), or CredentialRefreshError
RefreshLoad(p) ==
    /\ pc[p] = "r_load"
    /\ \/ /\ CanBuild
          /\ \E creds \in Payloads :
               newcreds' = [newcreds EXCEPT ![p] = creds]
          /\ pc' = [pc EXCEPT ![p] = "r_build"]
          /\ UNCHANGED <<q, exc, resp, cl, newcl>>
       \/ AfterRefresh(p, "CredentialRefreshError")
    /\ UNCHANGED <<CONFIG, BIGQUERY, static, service, client_lock, op>>

\* The mutant: the payload is recorded as soon as the handle is built, before
\* the lock is taken, and the handle alone is installed under the lock.
RefreshBuild_RecordsPayload(p) ==
    /\ pc[p] = "r_build"
    /\ IF env.bigquery_project \/ HasProjectId(newcreds[p])
       THEN /\ newcl' = [newcl EXCEPT ![p] = FreshHandle]
            /\ hstate' = [hstate EXCEPT ![FreshHandle] = "live"]
            /\ hcreds' = [hcreds EXCEPT ![FreshHandle] = newcreds[p]]
            /\ credentials_info' = newcreds[p]
            /\ pc' = [pc EXCEPT ![p] = "r_lock"]
            /\ UNCHANGED <<q, exc, resp, cl, newcreds>>
       ELSE /\ AfterRefresh(p, "ConfigurationError")
            /\ UNCHANGED <<hstate, hcreds, credentials_info>>
    /\ UNCHANGED <<CONFIG, BIGQUERY, static, client, client_lock, op>>

\* project = self._default_project or credentials_info.get("project_id");
\* ConfigurationError without one; else client = bigquery.Client(...)
RefreshBuild(p) ==
    /\ pc[p] = "r_build"
    /\ IF env.bigquery_project \/ HasProjectId(newcreds[p])
       THEN /\ newcl' = [newcl EXCEPT ![p] = FreshHandle]
            /\ hstate' = [hstate EXCEPT ![FreshHandle] = "live"]
            /\ hcreds' = [hcreds EXCEPT ![FreshHandle] = newcreds[p]]
            /\ pc' = [pc EXCEPT ![p] = "r_lock"]
            /\ UNCHANGED <<q, exc, resp, cl, newcreds>>
       ELSE /\ AfterRefresh(p, "ConfigurationError")
            /\ UNCHANGED <<hstate, hcreds>>
    /\ UNCHANGED <<CONFIG, BIGQUERY, static, client, credentials_info, client_lock, op>>

\* with self._client_lock:   (refresh_client)
RefreshLock(p) ==
    /\ pc[p] = "r_lock"
    /\ client_lock = NoOwner
    /\ client_lock' = p
    /\ pc' = [pc EXCEPT ![p] = "r_swap"]
    /\ UNCHANGED <<CONFIG, BIGQUERY, static, service, op, locals, q, exc, resp>>

\* The mutant: the swap that forgets to close the handle it replaces.
RefreshSwap_NoClose(p) ==
    /\ pc[p] = "r_swap"
    /\ client_lock = p
    /\ client' = newcl[p]
    /\ credentials_info' = newcreds[p]
    /\ client_lock' = NoOwner
    /\ BIGQUERY' = IF op[p] = "lifespan" THEN TRUE ELSE BIGQUERY
    /\ AfterRefresh(p, "none")
    /\ UNCHANGED <<CONFIG, static, hstate, hcreds, op>>

\* if self._client: self._client.close(); install the handle and the payload
RefreshSwap(p) ==
    /\ pc[p] = "r_swap"
    /\ client_lock = p
    /\ hstate' = IF client # NoHandle
                 THEN [hstate EXCEPT ![client] = "closed"]
                 ELSE hstate
    /\ client' = newcl[p]
    /\ credentials_info' = newcreds[p]
    /\ client_lock' = NoOwner
    /\ BIGQUERY' = IF op[p] = "lifespan" THEN TRUE ELSE BIGQUERY
    /\ AfterRefresh(p, "none")
    /\ UNCHANGED <<CONFIG, static, hcreds, op>>

\* ------------------------------------------------------------------ close
\* with self._client_lock:   (close)
CloseLock(p) ==
    /\ pc[p] = "c_lock"
    /\ client_lock = NoOwner
    /\ client_lock' = p
    /\ pc' = [pc EXCEPT ![p] = "c_crit"]
    /\ UNCHANGED <<CONFIG, BIGQUERY, static, service, op, locals, q, exc, resp>>

\* The mutant: the handle is closed and stays installed.
CloseCrit_KeepsHandle(p) ==
    /\ pc[p] = "c_crit"
    /\ client_lock = p
    /\ hstate' = IF client # NoHandle THEN [hstate EXCEPT ![client] = "closed"] ELSE hstate
    /\ client_lock' = NoOwner
    /\ Leave(p, "none", q[p])
    /\ UNCHANGED <<CONFIG, BIGQUERY, static, client, credentials_info, hcreds, op>>

\* if self._client: self._client.close(); self._client = None
CloseCrit(p) ==
    /\ pc[p] = "c_crit"
    /\ client_lock = p
    /\ IF client # NoHandle
       THEN /\ hstate' = [hstate EXCEPT ![client] = "closed"]
            /\ client' = NoHandle
       ELSE UNCHANGED <<hstate, client>>
    /\ client_lock' = NoOwner
    /\ Leave(p, "none", q[p])
    /\ UNCHANGED <<CONFIG, BIGQUERY, static, credentials_info, hcreds, op>>

\* ------------------------------------------------- lifespan, direct calls
\* lifespan startup: CONFIG = load_config(); BIGQUERY = BigQueryService(...),
\* whose __init__ calls refresh_client.
LifespanStart(p) ==
    /\ pc[p] = "idle"
    /\ ~CONFIG
    /\ CONFIG' = TRUE
    /\ op' = [op EXCEPT ![p] = "lifespan"]
    /\ pc' = [pc EXCEPT ![p] = "r_load"]
    /\ UNCHANGED <<BIGQUERY, static, service, client_lock, locals, q, exc, resp>>

\* lifespan shutdown: if BIGQUERY: BIGQUERY.close()
LifespanShutdown(p) ==
    /\ pc[p] = "idle"
    /\ BIGQUERY
    /\ op' = [op EXCEPT ![p] = "shutdown"]
    /\ pc' = [pc EXCEPT ![p] = "c_lock"]
    /\ UNCHANGED <<CONFIG, BIGQUERY, static, service, client_lock, locals, q, exc, resp>>

\* a call of the public refresh_client on the constructed service
CallRefreshClient(p) ==
    /\ pc[p] = "idle"
    /\ BIGQUERY
    /\ op' = [op EXCEPT ![p] = "refresh_client"]
    /\ pc' = [pc EXCEPT ![p] = "r_load"]
    /\ UNCHANGED <<CONFIG, BIGQUERY, static, service, client_lock, locals, q, exc, resp>>

\* the operation has ended and its task is gone
Return(p) ==
    /\ pc[p] = "done"
    /\ pc' = [pc EXCEPT ![p] = "idle"]
    /\ op' = [op EXCEPT ![p] = "none"]
    /\ q' = [q EXCEPT ![p] = q0]
    /\ exc' = [exc EXCEPT ![p] = "none"]
    /\ resp' = [resp EXCEPT ![p] = NoResp]
    /\ UNCHANGED <<CONFIG, BIGQUERY, static, service, client_lock, locals>>

\* -------------------------------------------------- fetch_service_account
\* The Code of a ClientError of get_secret_value; "" when the error carries none.
StoreErrorCodes == {"ThrottlingException", "TooManyRequestsException",
                    "AccessDeniedException", "ResourceNotFoundException", ""}

\* The mutant: every error code is retried.
ThrottlingCodes_All == StoreErrorCodes

\* error_code in {"ThrottlingException", "TooManyRequestsException"}
ThrottlingCodes == {"ThrottlingException", "TooManyRequestsException"}

\* The texts a SecretString can hold: two JSON objects, a JSON array, and two
\* texts that are not JSON.
SecretStrings == {"{\"project_id\": \"p\"}", "{}", "[1]", "not json", ""}

\* The values a SecretBinary can hold: the base64 forms of the first four
\* texts, the base64 form of the bytes FF FE, and a value of wrong padding.
SecretBinaries == {"eyJwcm9qZWN0X2lkIjogInAifQ==", "e30=", "WzFd", "bm90IGpzb24=",
                   "//4=", "e30"}

\* What get_secret_value can answer: a ClientError, or a response with or
\* without SecretString and SecretBinary.
StoreAnswers ==
    {[kind |-> "ClientError", code |-> c, SecretString |-> Missing, SecretBinary |-> Missing] :
        c \in StoreErrorCodes}
    \cup
    {[kind |-> "response", code |-> "", SecretString |-> t, SecretBinary |-> b] :
        t \in SecretStrings \cup {Missing}, b \in SecretBinaries \cup {Missing}}

\* base64.b64decode(secret_binary).decode("utf-8"): the text, or the error raised
b64decode_utf8(secret_binary) ==
    CASE secret_binary = "eyJwcm9qZWN0X2lkIjogInAifQ==" ->
            [raises |-> "none", text |-> "{\"project_id\": \"p\"}"]
      [] secret_binary = "e30=" -> [raises |-> "none", text |-> "{}"]
      [] secret_binary = "WzFd" -> [raises |-> "none", text |-> "[1]"]
      [] secret_binary = "bm90IGpzb24=" -> [raises |-> "none", text |-> "not json"]
      [] secret_binary = "//4=" -> [raises |-> "UnicodeDecodeError", text |-> ""]
      [] OTHER -> [raises |-> "binascii.Error", text |-> ""]

\* json.loads(payload): the value and its type, or JSONDecodeError
json_loads(payload) ==
    CASE payload = "{\"project_id\": \"p\"}" ->
            [raises |-> "none", type |-> "dict", value |-> "sa_with_project_id"]
      [] payload = "{}" ->
            [raises |-> "none", type |-> "dict", value |-> "sa_without_project_id"]
      [] payload = "[1]" -> [raises |-> "none", type |-> "list", value |-> "[1]"]
      [] OTHER -> [raises |-> "JSONDecodeError", type |-> "none", value |-> NoCreds]

\* The try block after get_secret_value returned response: the payload
\* returned, or the exception that leaves fetch_service_account.
ReadSecret(response) ==
    LET payload ==
            IF response.SecretString # Missing
            THEN [raises |-> "none", text |-> response.SecretString]
            ELSE IF response.SecretBinary = Missing
            THEN [raises |-> "CredentialRetrievalError", text |-> ""]
            ELSE b64decode_utf8(response.SecretBinary)
        data == json_loads(payload.text)
    IN  IF payload.raises # "none"
        THEN [returned |-> NoCreds, raised |-> payload.raises]
        ELSE IF data.raises = "JSONDecodeError"
        THEN [returned |-> NoCreds, raised |-> "CredentialRetrievalError"]
        ELSE IF data.type # "dict"
        THEN [returned |-> NoCreds, raised |-> "CredentialRetrievalError"]
        ELSE [returned |-> data.value, raised |-> "none"]

\* The mutant: the backoff does not grow.
Backoff_Constant(attempt) == 500

\* backoff = 2**attempt * 0.5, in milliseconds
Backoff(attempt) == 2 ^ attempt * 500

\* error_code in {...} and attempt < 2
ShouldRetry(error_code, attempt) == error_code \in ThrottlingCodes /\ attempt < 2

\* fetch_service_account(secret_name) is called
FetchStart ==
    /\ fs.pc = "idle"
    /\ fs' = [fs0 EXCEPT !.pc = "call"]
    /\ UNCHANGED <<CONFIG, BIGQUERY, env, pure, service, client_lock, pc, op, locals, q,
                   exc, resp>>

\* response = self._client.get_secret_value(SecretId=secret_name)
FetchCall ==
    /\ fs.pc = "call"
    /\ \E answer \in StoreAnswers :
         fs' = [fs EXCEPT !.pc = "answered", !.calls = @ + 1, !.answers = Append(@, answer)]
    /\ UNCHANGED <<CONFIG, BIGQUERY, env, pure, service, client_lock, pc, op, locals, q,
                   exc, resp>>

\* the rest of the try block, or the except clause for ClientError
FetchAnswered ==
    /\ fs.pc = "answered"
    /\ LET answer == fs.answers[Len(fs.answers)]
       IN  IF answer.kind = "ClientError"
           THEN IF ShouldRetry(answer.code, fs.attempt)
                THEN fs' = [fs EXCEPT !.pc = "sleep", !.last_error = answer.code]
                ELSE fs' = [fs EXCEPT !.pc = "done", !.last_error = answer.code,
                                      !.raised = "CredentialRetrievalError"]
           ELSE fs' = [fs EXCEPT !.pc = "done",
                                 !.returned = ReadSecret(answer).returned,
                                 !.raised = ReadSecret(answer).raised]
    /\ UNCHANGED <<CONFIG, BIGQUERY, env, pure, service, client_lock, pc, op, locals, q,
                   exc, resp>>

\* time.sleep(backoff); continue: the next attempt of range(3), after which
\* CredentialRetrievalError is raised
FetchSleep ==
    /\ fs.pc = "sleep"
    /\ LET slept == [fs EXCEPT !.sleeps = Append(@, Backoff(fs.attempt))]
       IN  IF fs.attempt + 1 < 3
           THEN fs' = [slept EXCEPT !.pc = "call", !.attempt = @ + 1]
           ELSE fs' = [slept EXCEPT !.pc = "done", !.raised = "CredentialRetrievalError"]
    /\ UNCHANGED <<CONFIG, BIGQUERY, env, pure, service, client_lock, pc, op, locals, q,
                   exc, resp>>

\* ----------------------------------------------------- validate_sql_query
\* A string is a sequence of one-character strings.
Whitespace == {" ", "\t", "\n"}
UpperCase == <<"A", "B", "C", "D", "E", "F", "G", "H", "I", "J", "K", "L", "M",
               "N", "O", "P", "Q", "R", "S", "T", "U", "V", "W", "X", "Y", "Z">>
LowerCase == <<"a", "b", "c", "d", "e", "f", "g", "h", "i", "j", "k", "l", "m",
               "n", "o", "p", "q", "r", "s", "t", "u", "v", "w", "x", "y", "z">>

lower_char(c) ==
    IF \E i \in DOMAIN UpperCase : UpperCase[i] = c
    THEN LowerCase[CHOOSE i \in DOMAIN UpperCase : UpperCase[i] = c]
    ELSE c

\* The mutant: the text is compared as written.
lower_AsWritten(s) == s

\* str.lower()
lower(s) == [i \in DOMAIN s |-> lower_char(s[i])]

RECURSIVE lstrip(_)
lstrip(s) == IF s # << >> /\ Head(s) \in Whitespace THEN lstrip(Tail(s)) ELSE s

RECURSIVE rstrip(_)
rstrip(s) ==
    IF s # << >> /\ s[Len(s)] \in Whitespace THEN rstrip(SubSeq(s, 1, Len(s) - 1)) ELSE s

\* str.strip()
strip(s) == rstrip(lstrip(s))

\* s.split(None, 1)[0] of a string that starts with a non-blank character
RECURSIVE first_token(_)
first_token(s) ==
    IF s = << >> \/ Head(s) \in Whitespace THEN << >> ELSE <<Head(s)>> \o first_token(Tail(s))

READ_ONLY_PREFIXES ==
    { <<"s", "e", "l", "e", "c", "t">>, <<"w", "i", "t", "h">>,
      <<"e", "x", "p", "l", "a", "i", "n">> }

PROHIBITED_PREFIXES ==
    { <<"i", "n", "s", "e", "r", "t">>, <<"u", "p", "d", "a", "t", "e">>,
      <<"d", "e", "l", "e", "t", "e">>, <<"d", "r", "o", "p">>,
      <<"a", "l", "t", "e", "r">>, <<"c", "r", "e", "a", "t", "e">>,
      <<"m", "e", "r", "g", "e">>, <<"t", "r", "u", "n", "c", "a", "t", "e">>,
      <<"g", "r", "a", "n", "t">>, <<"r", "e", "v", "o", "k", "e">> }

Rejected(message) == [ok |-> FALSE, error |-> message, sql |-> << >>]
Accepted(text) == [ok |-> TRUE, error |-> "none", sql |-> text]

\* The mutant: the final character is searched too.
HasInnerSemicolon_WholeText(normalized) ==
    \E i \in 1..Len(normalized) : normalized[i] = ";"

\* ";" in normalized[:-1]
HasInnerSemicolon(normalized) ==
    \E i \in 1..(Len(normalized) - 1) : normalized[i] = ";"

\* validate_sql_query: the normalized query, or the QueryValidationError raised
validate_sql_query(sql_query) ==
    IF strip(sql_query) = << >>
    THEN Rejected("SQL query cannot be empty")
    ELSE LET normalized == strip(sql_query)
             token == first_token(lower(normalized))
         IN  IF token \in PROHIBITED_PREFIXES
             THEN Rejected("Only read-only queries are allowed (SELECT/WITH/EXPLAIN).")
             ELSE IF token \notin READ_ONLY_PREFIXES
             THEN Rejected("SQL must start with SELECT, WITH, or EXPLAIN for safety.")
             ELSE IF HasInnerSemicolon(normalized)
             THEN Rejected("Multiple SQL statements are not supported")
             ELSE IF normalized[Len(normalized)] = ";"
             THEN Accepted(strip(SubSeq(normalized, 1, Len(normalized) - 1)))
             ELSE Accepted(strip(normalized))

\* The SQL texts the tool is called with.
SqlInputs ==
    { << >>,
      <<"S", "E", "L", "E", "C", "T", " ", "1", ";">>,
      <<"D", "r", "o", "p", " ", "t">>,
      <<"s", "h", "o", "w", " ", "t">>,
      <<"s", "e", "l", "e", "c", "t", " ", "1", ";", " ", "s", "e", "l", "e", "c", "t", " ", "2">> }

\* str.upper() of a lower-case word, and the word with a capital initial
upper(word) ==
    [i \in DOMAIN word |->
        UpperCase[CHOOSE k \in DOMAIN LowerCase : LowerCase[k] = word[i]]]
capitalize(word) == <<upper(word)[1]>> \o Tail(word)

\* The texts validate_sql_query is called with: blanks, then a first word
\* (every keyword of the two sets in lower case, in upper case and with a
\* capital initial, and words of neither set), then the rest of the text.
SqlLeads == { << >>, <<" ">>, <<"\n", "\t">> }
SqlKeywords == READ_ONLY_PREFIXES \cup PROHIBITED_PREFIXES
SqlWords ==
    SqlKeywords \cup {upper(w) : w \in SqlKeywords} \cup {capitalize(w) : w \in SqlKeywords}
      \cup { <<"s", "h", "o", "w">>, <<"s", "e", "l", "e", "c", "t", "s">>,
             <<"(", "s", "e", "l", "e", "c", "t">>, <<";">> }
SqlRests ==
    { << >>, <<" ", "1">>, <<";">>, <<" ", "1", ";">>, <<" ", "1", " ", ";">>,
      <<" ", "X", ";", "\n">>, <<" ", "1", ";", ";">>, <<" ", "1", ";", " ", "2">>,
      <<"\t", "a", " ", " ", "B", " ">> }
SqlTexts ==
    { << >>, <<" ">>, <<"\t", "\n", " ">> }
      \cup {lead \o word \o rest : lead \in SqlLeads, word \in SqlWords, rest \in SqlRests}

\* validate_sql_query(sql_query) is applied
ApplyValidate ==
    /\ pure.fn = "validate_sql_query"
    /\ ~pure.applied
    /\ pure' = [pure EXCEPT !.applied = TRUE, !.validated = validate_sql_query(pure.sql_query)]
    /\ UNCHANGED <<CONFIG, BIGQUERY, env, fs, service, client_lock, pc, op, locals, q,
                   exc, resp>>

\* --------------------------------------------------- _build_table_reference
\* The backtick character (U+0060), which a string literal cannot hold.
Backtick == "U+0060"

\* dataset_id.replace(backtick, "")
without_backticks(s) == SelectSeq(s, LAMBDA c : c # Backtick)

\* The mutant: the default project is prepended whatever the dataset id holds.
build_table_reference_AlwaysQualified(dataset_id, table_name, default_project) ==
    default_project \o <<".">> \o strip(without_backticks(dataset_id)) \o <<".">> \o table_name

\* BigQueryService._build_table_reference
build_table_reference(dataset_id, table_name, default_project) ==
    LET sanitized_dataset == strip(without_backticks(dataset_id))
    IN  IF \E i \in DOMAIN sanitized_dataset : sanitized_dataset[i] = "."
        THEN sanitized_dataset \o <<".">> \o table_name
        ELSE default_project \o <<".">> \o sanitized_dataset \o <<".">> \o table_name

\* The dataset ids, table names and default projects the function is called with.
DatasetIds ==
    { <<"d">>, <<"d", "s">>, <<"p", ".", "d">>, <<"q", ".", "d", "s">>,
      <<Backtick, "d", Backtick>>, <<Backtick, "p", ".", "d", Backtick>>,
      <<Backtick, "p", Backtick, ".", Backtick, "d", Backtick>>,
      <<" ", "d", " ">>, <<" ", "p", ".", "d">>,
      <<Backtick, " ", "q", ".", "d", Backtick, "\n">>,
      <<"d", Backtick, "s">> }
TableNames == { <<"t">>, <<"t", "_", "1">> }
DefaultProjects == { <<"p">>, <<"d", "p">> }

\* _build_table_reference(dataset_id, table_name, client.project) is applied
ApplyBuildTableReference ==
    /\ pure.fn = "_build_table_reference"
    /\ ~pure.applied
    /\ pure' = [pure EXCEPT !.applied = TRUE,
                            !.table_ref = build_table_reference(pure.dataset_id, pure.table_name,
                                                                pure.default_project)]
    /\ UNCHANGED <<CONFIG, BIGQUERY, env, fs, service, client_lock, pc, op, locals, q,
                   exc, resp>>

\* --------------------------------------------------------- _require_client
\* with self._client_lock:   (_require_client)
RequireClientLock(p) ==
    /\ pc[p] = "rc_lock"
    /\ client_lock = NoOwner
    /\ client_lock' = p
    /\ pc' = [pc EXCEPT ![p] = "rc_read"]
    /\ UNCHANGED <<CONFIG, BIGQUERY, static, service, op, locals, q, exc, resp>>

\* The mutant: the handle is handed out without the test.
HoldsNoClient_Never(c) == FALSE

\* if self._client is None
HoldsNoClient(c) == c = NoHandle

\* The mutant: the handle is returned with the lock still held.
RequireClientRead_KeepsLock(p) ==
    /\ pc[p] = "rc_read"
    /\ client_lock = p
    /\ LET qp == [q[p] EXCEPT !.lookups = @ + 1]
       IN  IF HoldsNoClient(client)
           THEN /\ Leave(p, "QueryExecutionError", qp)
                /\ client_lock' = NoOwner
           ELSE /\ cl' = [cl EXCEPT ![p] = client]
                /\ q' = [q EXCEPT ![p] = qp]
                /\ pc' = [pc EXCEPT ![p] =
                            IF op[p] = "tool_schema" THEN "s_lookup" ELSE "q_submit"]
                /\ UNCHANGED <<exc, resp, newcl, newcreds, client_lock>>
    /\ UNCHANGED <<CONFIG, BIGQUERY, static, service, op>>

\* if self._client is None: raise QueryExecutionError; return self._client
RequireClientRead(p) ==
    /\ pc[p] = "rc_read"
    /\ client_lock = p
    /\ client_lock' = NoOwner
    /\ LET qp == [q[p] EXCEPT !.lookups = @ + 1]
       IN  IF HoldsNoClient(client)
           THEN Leave(p, "QueryExecutionError", qp)
           ELSE /\ cl' = [cl EXCEPT ![p] = client]
                /\ q' = [q EXCEPT ![p] = qp]
                /\ pc' = [pc EXCEPT ![p] =
                            IF op[p] = "tool_schema" THEN "s_lookup" ELSE "q_submit"]
                /\ UNCHANGED <<exc, resp, newcl, newcreds>>
    /\ UNCHANGED <<CONFIG, BIGQUERY, static, service, op>>

\* -------------------------------------------------------- get_table_schema
\* How client.get_table(table_ref) can answer: the table, NotFound (404), or
\* another GoogleAPICallError, among them Unauthorized (401) and Forbidden (403).
GetTableAnswers == {"ok", "NotFound", "Unauthorized", "Forbidden", "GoogleAPICallError"}

\* The mutant: the clause for GoogleAPICallError (of which NotFound is a
\* subclass) comes first.
SchemaRaises_Generic(answer) ==
    IF answer = "ok" THEN "none" ELSE "QueryExecutionError"

\* except NotFound: raise TableNotFoundError;
\* except GoogleAPICallError: raise QueryExecutionError
SchemaRaises(answer) ==
    CASE answer = "ok" -> "none"
      [] answer = "NotFound" -> "TableNotFoundError"
      [] OTHER -> "QueryExecutionError"

\* The mutant: a lookup refused with 401 or 403 refreshes the client, as a
\* query submission does.
SchemaLookup_RefreshesOnAuthError(p) ==
    /\ pc[p] = "s_lookup"
    /\ \E answer \in GetTableAnswers :
         IF answer \in {"Unauthorized", "Forbidden"}
         THEN /\ q' = [q EXCEPT ![p].remote = answer]
              /\ pc' = [pc EXCEPT ![p] = "r_load"]
              /\ UNCHANGED <<exc, resp, locals>>
         ELSE Leave(p, SchemaRaises(answer), [q[p] EXCEPT !.remote = answer])
    /\ UNCHANGED <<CONFIG, BIGQUERY, static, service, client_lock, op>>

\* table = client.get_table(table_ref) and the except clauses around it
SchemaLookup(p) ==
    /\ pc[p] = "s_lookup"
    /\ \E answer \in GetTableAnswers :
         Leave(p, SchemaRaises(answer), [q[p] EXCEPT !.remote = answer])
    /\ UNCHANGED <<CONFIG, BIGQUERY, static, service, client_lock, op>>

\* ----------------------------------------------------------- execute_query
\* _maybe_refresh_on_auth_error: error_code in {401, 403}
IsAuthError(code) == code \in {401, 403}

\* client.query(sql_query) and query_job.result(...): the row iterator over a
\* result set of at most max_avail rows, or a GoogleAPICallError, on which
\* _maybe_refresh_on_auth_error may call refresh_client before
\* QueryExecutionError is raised.
QuerySubmitOver(p, max_avail) ==
    /\ pc[p] = "q_submit"
    /\ \/ \E n \in 0..max_avail :
            /\ q' = [q EXCEPT ![p].submits = @ + 1, ![p].avail = n]
            /\ pc' = [pc EXCEPT ![p] = "q_iter"]
            /\ UNCHANGED <<exc, resp, locals>>
       \/ \E code \in ApiErrorCodes :
            LET qp == [q[p] EXCEPT !.submits = @ + 1, !.err_code = code,
                                   !.failed_in = "submit"]
            IN  IF IsAuthError(code)
                THEN /\ q' = [q EXCEPT ![p] = [qp EXCEPT !.refreshes = @ + 1]]
                     /\ pc' = [pc EXCEPT ![p] = "r_load"]
                     /\ UNCHANGED <<exc, resp, locals>>
                ELSE Leave(p, "QueryExecutionError", qp)
    /\ UNCHANGED <<CONFIG, BIGQUERY, static, service, client_lock, op>>

QuerySubmit(p) == QuerySubmitOver(p, MaxAvail)

\* The mutant: > for >=.
ChunkIsFull_Strict(chunk) == Len(chunk) > env.row_chunk_size

\* len(current_chunk) >= self._row_chunk_size
ChunkIsFull(chunk) == Len(chunk) >= env.row_chunk_size

\* The mutant: > for >=.
ReachedMaxRows_Strict(row_count, max_rows) == row_count > max_rows

\* row_count >= max_rows
ReachedMaxRows(row_count, max_rows) == row_count >= max_rows

\* One iteration of `for row in iterator`, up to the break test: the rows of
\* a result set are 1, 2, ..., avail in warehouse order.
IterateRow(qp) ==
    LET row == qp.pos + 1
        chunk == Append(qp.current_chunk, row)
        count == qp.row_count + 1
    IN  IF ChunkIsFull(chunk)
        THEN [qp EXCEPT !.pos = row, !.row_count = count,
                        !.chunks = Append(@, [chunk_index |-> qp.chunk_index, rows |-> chunk]),
                        !.chunk_index = @ + 1,
                        !.current_chunk = << >>]
        ELSE [qp EXCEPT !.pos = row, !.row_count = count, !.current_chunk = chunk]

\* The mutant: current_chunk is one buffer shared by the calls in flight.
QueryIterRow_Shared(p) ==
    /\ pc[p] = "q_iter"
    /\ q[p].pos < q[p].avail
    /\ q' = [r \in Procs |->
                IF r = p THEN IterateRow(q[p])
                ELSE IF pc[r] = "q_iter"
                THEN [q[r] EXCEPT !.current_chunk = Append(@, q[p].pos + 1)]
                ELSE q[r]]
    /\ pc' = [pc EXCEPT ![p] =
                IF ReachedMaxRows(q'[p].row_count, q[p].max_rows) THEN "q_final" ELSE "q_iter"]
    /\ UNCHANGED <<CONFIG, BIGQUERY, static, service, client_lock, op, locals, exc, resp>>

QueryIterRow(p) ==
    /\ pc[p] = "q_iter"
    /\ q[p].pos < q[p].avail
    /\ q' = [q EXCEPT ![p] = IterateRow(q[p])]
    /\ pc' = [pc EXCEPT ![p] =
                IF ReachedMaxRows(q'[p].row_count, q[p].max_rows) THEN "q_final" ELSE "q_iter"]
    /\ UNCHANGED <<CONFIG, BIGQUERY, static, service, client_lock, op, locals, exc, resp>>

\* a GoogleAPICallError while iterating: QueryExecutionError, no refresh
QueryIterFail(p) ==
    /\ pc[p] = "q_iter"
    /\ Leave(p, "QueryExecutionError", [q[p] EXCEPT !.failed_in = "stream"])
    /\ UNCHANGED <<CONFIG, BIGQUERY, static, service, client_lock, op>>

\* The mutant: the final chunk is appended even when it is empty.
FlushFinal_Always(qp) ==
    [qp EXCEPT !.chunks = Append(@, [chunk_index |-> qp.chunk_index,
                                     rows |-> qp.current_chunk]),
               !.current_chunk = << >>]

\* if current_chunk: chunks.append(QueryChunk(chunk_index, current_chunk))
FlushFinal(qp) ==
    IF qp.current_chunk # << >>
    THEN [qp EXCEPT !.chunks = Append(@, [chunk_index |-> qp.chunk_index,
                                          rows |-> qp.current_chunk]),
                    !.current_chunk = << >>]
    ELSE qp

\* getattr(query_job, "total_rows", None): absent, or the size of the result set
TotalRowsReports(avail) == {None, Some(avail)}

\* The mutant: <= for <.
IsTruncated_Inclusive(total_rows, row_count) ==
    total_rows # None /\ row_count <= total_rows[1]

\* truncated = total_rows is not None and row_count < total_rows
IsTruncated(total_rows, row_count) == total_rows # None /\ row_count < total_rows[1]

\* The loop has ended (iterator exhausted, or break): the QueryResult.
QueryFinish(p) ==
    /\ \/ pc[p] = "q_final"
       \/ pc[p] = "q_iter" /\ q[p].pos = q[p].avail
    /\ \E total_rows \in TotalRowsReports(q[p].avail) :
         Leave(p, "none",
               [FlushFinal(q[p]) EXCEPT !.total_rows = total_rows,
                                        !.truncated = IsTruncated(total_rows, q[p].row_count)])
    /\ UNCHANGED <<CONFIG, BIGQUERY, static, service, client_lock, op>>

\* ------------------------------------------------------------------ tools
\* server.get_table_schema up to its service call
ToolGetTableSchema(p) ==
    /\ pc[p] = "idle"
    /\ op' = [op EXCEPT ![p] = "tool_schema"]
    /\ IF BIGQUERY
       THEN /\ pc' = [pc EXCEPT ![p] = "rc_lock"]
            /\ UNCHANGED <<q, exc, resp, locals>>
       ELSE LeaveAs(p, "tool_schema", "QueryExecutionError", q[p])
    /\ UNCHANGED <<CONFIG, BIGQUERY, static, service, client_lock>>

\* the max_rows arguments the tool is called with
MaxRowsArgs(limit) == {None} \cup {Some(n) : n \in (0 - 1)..(limit + 1)}

\* The mutant: a request above the server's limit is passed on as it is.
RowsLimit_NoClamp(max_rows) ==
    IF max_rows # None THEN max_rows[1]
    ELSE IF CONFIG THEN env.default_max_rows ELSE FallbackMaxRows

\* rows_limit of server.execute_query
RowsLimit(max_rows) ==
    LET default_limit == IF CONFIG THEN env.default_max_rows ELSE FallbackMaxRows
        rows_limit == IF max_rows # None THEN max_rows[1] ELSE default_limit
    IN  IF rows_limit > default_limit THEN default_limit ELSE rows_limit

\* The mutant: the test of rows_limit is missing.
RaisesValidationError_SqlOnly(validated, rows_limit) == ~validated.ok

\* validate_sql_query raised, or: if rows_limit <= 0: raise QueryValidationError
RaisesValidationError(validated, rows_limit) == ~validated.ok \/ rows_limit <= 0

\* server.execute_query(sql_query, max_rows) up to its service call
ToolExecuteQueryWith(p, sql_query, max_rows) ==
    /\ pc[p] = "idle"
    /\ op' = [op EXCEPT ![p] = "tool_query"]
    /\   LET validated == validate_sql_query(sql_query)
             rows_limit == RowsLimit(max_rows)
             checked == [q[p] EXCEPT !.sql_ok = validated.ok, !.rows_limit = rows_limit]
             qp == [checked EXCEPT !.sql = validated.sql, !.max_rows = rows_limit]
         IN  IF RaisesValidationError(validated, rows_limit)
             THEN /\ pc' = [pc EXCEPT ![p] = "done"]
                  /\ resp' = [resp EXCEPT ![p] = error_response("INVALID_SQL")]
                  /\ q' = [q EXCEPT ![p] = [checked EXCEPT !.raised = "QueryValidationError"]]
                  /\ UNCHANGED <<exc, locals>>
             ELSE IF ~BIGQUERY
             THEN LeaveAs(p, "tool_query", "QueryExecutionError", checked)
             ELSE /\ pc' = [pc EXCEPT ![p] = "rc_lock"]
                  /\ q' = [q EXCEPT ![p] = qp]
                  /\ UNCHANGED <<exc, resp, locals>>
    /\ UNCHANGED <<CONFIG, BIGQUERY, static, service, client_lock>>

\* server.execute_query called with any SQL text and any max_rows
ToolExecuteQuery(p) ==
    \E sql_query \in SqlInputs, max_rows \in MaxRowsArgs(env.default_max_rows) :
        ToolExecuteQueryWith(p, sql_query, max_rows)

\* ---------------------------------------------------------- specification
\* What a task does apart from submitting a query.
Step(p) ==
    \/ LifespanStart(p)
    \/ LifespanShutdown(p)
    \/ CallRefreshClient(p)
    \/ RefreshLoad(p)
    \/ RefreshBuild(p)
    \/ RefreshLock(p)
    \/ RefreshSwap(p)
    \/ CloseLock(p)
    \/ CloseCrit(p)
    \/ ToolGetTableSchema(p)
    \/ ToolExecuteQuery(p)
    \/ RequireClientLock(p)
    \/ RequireClientRead(p)
    \/ SchemaLookup(p)
    \/ QueryIterRow(p)
    \/ QueryIterFail(p)
    \/ QueryFinish(p)
    \/ Return(p)

\* Two tasks, any interleaving of their steps.
Next == \E p \in Procs : Step(p) \/ QuerySubmit(p)

Spec == Init /\ [][Next]_vars

\* One task at a time, over larger result sets and configurations.
SoloProc == "t1"
InitSolo == InitWith(BOOLEAN, 1..MaxChunkSolo, 1..MaxLimitSolo) /\ pure = pure0
NextSolo == Step(SoloProc) \/ QuerySubmitOver(SoloProc, MaxAvailSolo)

SpecSolo == InitSolo /\ [][NextSolo]_vars

\* One call of fetch_service_account against any answers of the secret store.
NextFetch == FetchStart \/ FetchCall \/ FetchAnswered \/ FetchSleep

SpecFetch == Init /\ [][NextFetch]_vars

\* One call of a pure function on any of its inputs.
PureCalls ==
    {[pure0 EXCEPT !.fn = "validate_sql_query", !.sql_query = text] : text \in SqlTexts}
    \cup
    {[pure0 EXCEPT !.fn = "_build_table_reference", !.dataset_id = d, !.table_name = t,
                   !.default_project = dp] :
        d \in DatasetIds, t \in TableNames, dp \in DefaultProjects}

InitPure == InitWith({FALSE}, {1}, {MaxLimit}) /\ pure \in PureCalls
NextPure == ApplyValidate \/ ApplyBuildTableReference

SpecPure == InitPure /\ [][NextPure]_vars

\* One task that calls the execute_query tool with given arguments, which
\* stay on record, on a server that starts up and whose queries may refresh.
ToolCalls(limit) ==
    {[pure0 EXCEPT !.fn = "execute_query", !.sql_query = sql_query, !.max_rows = max_rows] :
        sql_query \in SqlInputs, max_rows \in MaxRowsArgs(limit)}

\* server.execute_query called with the arguments on record
ToolExecuteQueryOfCall ==
    /\ pure.fn = "execute_query"
    /\ ToolExecuteQueryWith(SoloProc, pure.sql_query, pure.max_rows)

InitTool ==
    /\ InitWith({FALSE}, {MaxChunk}, 1..MaxLimit)
    /\ pure \in ToolCalls(env.default_max_rows)
NextTool ==
    \/ LifespanStart(SoloProc)
    \/ RefreshLoad(SoloProc)
    \/ RefreshBuild(SoloProc)
    \/ RefreshLock(SoloProc)
    \/ RefreshSwap(SoloProc)
    \/ ToolExecuteQueryOfCall
    \/ RequireClientLock(SoloProc)
    \/ RequireClientRead(SoloProc)
    \/ QuerySubmitOver(SoloProc, MaxAvail)
    \/ QueryIterRow(SoloProc)
    \/ QueryIterFail(SoloProc)
    \/ QueryFinish(SoloProc)
    \/ Return(SoloProc)

SpecTool == InitTool /\ [][NextTool]_vars

\* Two tasks that start the server, call refresh_client and shut it down, in
\* any interleaving, with BIGQUERY_PROJECT set, so that a payload with and
\* one without project_id both build a handle.
InitRefresh == InitWith({TRUE}, {1}, {MaxLimit}) /\ pure = pure0
StepRefresh(p) ==
    \/ LifespanStart(p)
    \/ LifespanShutdown(p)
    \/ CallRefreshClient(p)
    \/ RefreshLoad(p)
    \/ RefreshBuild(p)
    \/ RefreshLock(p)
    \/ RefreshSwap(p)
    \/ CloseLock(p)
    \/ CloseCrit(p)
    \/ Return(p)
NextRefresh == \E p \in Procs : StepRefresh(p)

SpecRefresh == InitRefresh /\ [][NextRefresh]_vars

\* ================================================================ claims
Min(a, b) == IF a <= b THEN a ELSE b
CeilDiv(n, c) == (n + c - 1) \div c

LiveHandles == {h \in Handles : IsLive(h)}
\* A refresh_client between building its handle and installing it.
Pending(h) == \E p \in Procs : pc[p] \in {"r_lock", "r_swap"} /\ newcl[p] = h
\* An execute_query between _require_client and its return.
InFlight(p) == op[p] = "tool_query" /\ pc[p] \in {"q_submit", "q_iter", "q_final"}
Finished(p) == op[p] = "tool_query" /\ pc[p] = "done" /\ q[p].returned

\* C1, as the claim states it: in every reachable state at most one handle is
\* live (created and not yet closed).
C1_AtMostOneLiveHandle == Cardinality(LiveHandles) <= 1

\* C1, amended: at most one handle is installed and it is live; every other
\* live handle is one a refresh_client has just built and not yet installed;
\* and whenever the installed handle is replaced or cleared, it is closed.
C1_OneInstalledHandle ==
    /\ [](/\ client # NoHandle => IsLive(client)
          /\ \A h \in LiveHandles : h = client \/ Pending(h))
    /\ [][client # NoHandle /\ client' # client => hstate'[client] = "closed"]_vars

\* C1 witness: a refresh_client has replaced a handle (which is closed), and
\* another refresh_client holds a second live handle it is about to install.
C1_Witness ==
    /\ client # NoHandle /\ IsLive(client)
    /\ \E h \in Handles : IsClosed(h)
    /\ \E p \in Procs : pc[p] = "r_swap" /\ IsLive(newcl[p]) /\ newcl[p] # client
    /\ \E p \in Procs : pc[p] = "done" /\ op[p] = "refresh_client" /\ exc[p] = "none"

\* C2: a refresh_client that installs its handle never closes the handle of an
\* execute_query that is still submitting or iterating rows.
C2_RefreshKeepsInFlightHandle ==
    [][\A r \in Procs :
         pc[r] = "r_swap" /\ pc'[r] # "r_swap" =>
           \A p \in Procs : InFlight(p) /\ IsLive(cl[p]) => hstate'[cl[p]] = "live"]_vars

\* The result execute_query returns alone for a result set of avail rows:
\* the first n = min(avail, max_rows) rows, c to a chunk.
SoloChunks(n, c) ==
    [i \in 1..CeilDiv(n, c) |->
        [chunk_index |-> i - 1,
         rows |-> [j \in 1..Min(c, n - (i - 1) * c) |-> (i - 1) * c + j]]]

\* C3: a call's chunks, current chunk and row count depend on its own progress
\* only, whatever the other call does meanwhile; its result equals the result
\* of the same call run alone.
C3_ConcurrentQueriesIndependent ==
    \A p \in Procs :
        LET c == env.row_chunk_size
            full == q[p].pos - (q[p].pos % c)
        IN  /\ op[p] = "tool_query" /\ pc[p] \in {"q_iter", "q_final"} =>
                /\ q[p].row_count = q[p].pos
                /\ q[p].chunks = SoloChunks(full, c)
                /\ q[p].current_chunk = [j \in 1..(q[p].pos - full) |-> full + j]
            /\ Finished(p) =>
                /\ q[p].row_count = Min(q[p].avail, q[p].max_rows)
                /\ q[p].chunks = SoloChunks(Min(q[p].avail, q[p].max_rows), c)

\* C3 witness: two calls hold the same live handle, one in the middle of its
\* rows with a chunk part filled, the other past its loop, over different result sets.
C3_Witness ==
    /\ op["t1"] = "tool_query" /\ op["t2"] = "tool_query"
    /\ pc["t1"] = "q_iter" /\ q["t1"].current_chunk # << >> /\ q["t1"].pos < q["t1"].avail
    /\ pc["t2"] = "q_final" /\ q["t2"].chunks # << >>
    /\ cl["t1"] = cl["t2"] /\ IsLive(cl["t1"])
    /\ q["t1"].avail # q["t2"].avail

RECURSIVE SumOfLengths(_)
SumOfLengths(chunks) ==
    IF chunks = << >> THEN 0 ELSE Len(Head(chunks).rows) + SumOfLengths(Tail(chunks))

RECURSIVE Flatten(_)
Flatten(chunks) ==
    IF chunks = << >> THEN << >> ELSE Head(chunks).rows \o Flatten(Tail(chunks))

\* C4: a returned result of N rows has ceil(N / C) chunks (none when N = 0),
\* numbered 0, 1, ... in order, whose lengths add up to N = row_count.
C4_ChunkCountAndIndices ==
    \A p \in Procs :
        Finished(p) =>
            LET n == q[p].row_count
                chunks == q[p].chunks
            IN  /\ Len(chunks) = CeilDiv(n, env.row_chunk_size)
                /\ n = 0 => chunks = << >>
                /\ \A i \in 1..Len(chunks) : chunks[i].chunk_index = i - 1
                /\ SumOfLengths(chunks) = n
                /\ Len(Flatten(chunks)) = n

\* C4 witness: a result of three chunks or more whose last chunk is not full.
C4_Witness ==
    \E p \in Procs :
        /\ Finished(p)
        /\ Len(q[p].chunks) >= 3
        /\ q[p].row_count % env.row_chunk_size # 0

\* C5: in a returned result every chunk but the last holds exactly
\* row_chunk_size rows and the last holds 1..row_chunk_size rows.
C5_ChunkSizes ==
    \A p \in Procs :
        Finished(p) =>
            LET chunks == q[p].chunks
            IN  \A i \in 1..Len(chunks) :
                    /\ i < Len(chunks) => Len(chunks[i].rows) = env.row_chunk_size
                    /\ Len(chunks[i].rows) >= 1
                    /\ Len(chunks[i].rows) <= env.row_chunk_size

\* C5 witness: iteration stopped in the middle of a chunk because max_rows was
\* reached, after a full chunk.
C5_Witness ==
    \E p \in Procs :
        /\ Finished(p)
        /\ q[p].avail > q[p].max_rows
        /\ q[p].max_rows % env.row_chunk_size # 0
        /\ Len(q[p].chunks) >= 2

\* C6: never more than max_rows rows are read; a returned result holds the
\* first min(T, max_rows) rows in warehouse order, the partial chunk included.
C6_StopsAtMaxRows ==
    \A p \in Procs :
        /\ op[p] = "tool_query" => q[p].pos <= q[p].max_rows
        /\ Finished(p) =>
            /\ q[p].row_count = Min(q[p].avail, q[p].max_rows)
            /\ q[p].pos = q[p].row_count
            /\ Flatten(q[p].chunks) = [i \in 1..q[p].row_count |-> i]
            /\ q[p].current_chunk = << >>

\* C6 witness: more rows were available than max_rows, and the last chunk
\* returned is a partial one.
C6_Witness ==
    \E p \in Procs :
        /\ Finished(p)
        /\ q[p].avail > q[p].max_rows
        /\ q[p].row_count = q[p].max_rows
        /\ q[p].chunks # << >>
        /\ Len(q[p].chunks[Len(q[p].chunks)].rows) < env.row_chunk_size

\* C7: truncated is true exactly when total_rows is known and greater than
\* the rows returned.
C7_TruncatedIffMoreRows ==
    \A p \in Procs :
        Finished(p) =>
            (q[p].truncated <=>
                (q[p].total_rows # None /\ q[p].total_rows[1] > q[p].row_count))

\* C7 witness: max_rows cut the result short and the warehouse reported the total.
C7_Witness ==
    \E p \in Procs :
        /\ Finished(p)
        /\ q[p].truncated
        /\ q[p].total_rows = Some(q[p].avail)
        /\ q[p].row_count = q[p].max_rows

\* C8: a submission that fails with 401 or 403 attempts refresh_client once and
\* the call then fails with QueryExecutionError whatever the refresh did; with
\* another status code it fails with QueryExecutionError without a refresh.
C8_SubmitFailureIsQueryExecutionError ==
    \A p \in Procs :
        op[p] = "tool_query" /\ pc[p] = "done" /\ q[p].failed_in = "submit" =>
            /\ q[p].raised = "QueryExecutionError"
            /\ q[p].err_code \in {401, 403} => q[p].refreshes = 1
            /\ q[p].err_code \notin {401, 403} => q[p].refreshes = 0

\* C9: one execute_query submits its query at most once and attempts
\* refresh_client at most once; a failure while iterating attempts no refresh.
C9_NoQueryRetry ==
    \A p \in Procs :
        /\ q[p].submits <= 1
        /\ q[p].refreshes <= 1
        /\ q[p].refreshes = 1 => q[p].failed_in = "submit" /\ q[p].submits = 1
        /\ q[p].failed_in = "stream" => q[p].refreshes = 0 /\ q[p].submits = 1
        /\ pc[p] = "done" /\ q[p].refresh_outcome = "ok" =>
              q[p].submits = 1 /\ ~q[p].returned

\* C9 witness: a submission failed with 401/403, the refresh succeeded, and
\* the call has ended after its one submission.
C9_Witness ==
    \E p \in Procs :
        /\ op[p] = "tool_query" /\ pc[p] = "done"
        /\ q[p].err_code \in {401, 403}
        /\ q[p].refresh_outcome = "ok"
        /\ q[p].submits = 1

ErrorCodes == {"TABLE_NOT_FOUND", "SCHEMA_ERROR", "INVALID_SQL", "QUERY_FAILURE"}

\* C10: a tool invocation that has ended returned an envelope, with data or
\* with one of the four error codes; no exception left the tool.
C10_ToolsAlwaysReturnEnvelope ==
    \A p \in Procs :
        op[p] \in {"tool_schema", "tool_query"} /\ pc[p] = "done" =>
            /\ exc[p] = "none"
            /\ resp[p].data \/ resp[p].error \in ErrorCodes

\* C11: an execute_query tool call whose SQL fails validation, or whose
\* effective max_rows is not positive, never reaches the service: it looks up
\* no handle, submits no query, attempts no refresh, and has ended with the
\* envelope of error code INVALID_SQL and no data.
C11_InvalidInputNeverReachesWarehouse ==
    \A p \in Procs :
        op[p] = "tool_query" /\ (~q[p].sql_ok \/ q[p].rows_limit <= 0) =>
            /\ pc[p] = "done"
            /\ resp[p].error = "INVALID_SQL" /\ ~resp[p].data
            /\ exc[p] = "none"
            /\ q[p].lookups = 0 /\ q[p].submits = 0 /\ q[p].refreshes = 0
            /\ cl[p] = NoHandle

\* C11 witness: while the service holds a live handle, one call was refused
\* for its SQL and another, of valid SQL, for its max_rows.
C11_Witness ==
    /\ BIGQUERY /\ client # NoHandle /\ IsLive(client)
    /\ \E p \in Procs : op[p] = "tool_query" /\ pc[p] = "done" /\ ~q[p].sql_ok
    /\ \E p \in Procs : /\ op[p] = "tool_query" /\ pc[p] = "done"
                        /\ q[p].sql_ok /\ q[p].rows_limit <= 0

\* The store's last answer, and whether an answer is a throttling error, another
\* error, or a response whose payload is the text of a JSON object.
LastAnswer == fs.answers[Len(fs.answers)]
Throttled(answer) ==
    answer.kind = "ClientError"
      /\ answer.code \in {"ThrottlingException", "TooManyRequestsException"}
OtherError(answer) == answer.kind = "ClientError" /\ ~Throttled(answer)
HoldsJsonObject(answer) ==
    /\ answer.kind = "response"
    /\ \/ answer.SecretString \in {"{}", "{\"project_id\": \"p\"}"}
       \/ /\ answer.SecretString = Missing
          /\ answer.SecretBinary \in {"e30=", "eyJwcm9qZWN0X2lkIjogInAifQ=="}

\* C12: when the store throttles the first and the second attempt and the
\* third holds a JSON-object payload, fetch_service_account calls the store
\* exactly three times, sleeps exactly twice (0.5 s, then 1.0 s) and returns
\* that payload without raising.
C12_ThrottledTwiceThenPayload ==
    (/\ Len(fs.answers) = 3
     /\ Throttled(fs.answers[1]) /\ Throttled(fs.answers[2])
     /\ HoldsJsonObject(fs.answers[3])) =>
        /\ fs.calls = 3
        /\ fs.sleeps = <<500, 1000>>
        /\ fs.pc \in {"answered", "done"}
        /\ fs.pc = "done" =>
              /\ fs.raised = "none"
              /\ fs.returned \in Payloads
              /\ HasProjectId(fs.returned) <=>
                    \/ fs.answers[3].SecretString = "{\"project_id\": \"p\"}"
                    \/ /\ fs.answers[3].SecretString = Missing
                       /\ fs.answers[3].SecretBinary = "eyJwcm9qZWN0X2lkIjogInAifQ=="

\* C12 witness: ThrottlingException, then TooManyRequestsException, then a
\* binary secret holding the object with project_id, which was returned.
C12_Witness ==
    /\ fs.pc = "done" /\ Len(fs.answers) = 3
    /\ fs.answers[1].code = "ThrottlingException"
    /\ fs.answers[2].code = "TooManyRequestsException"
    /\ fs.answers[3].kind = "response" /\ fs.answers[3].SecretString = Missing
    /\ fs.answers[3].SecretBinary = "eyJwcm9qZWN0X2lkIjogInAifQ=="
    /\ fs.returned = "sa_with_project_id" /\ fs.sleeps = <<500, 1000>>

\* C13: an error of the store that is not a throttling error ends the call at
\* once, on the first, second or third attempt alike: CredentialRetrievalError
\* is raised, nothing is slept and the store is not called again.
C13_OtherErrorFailsAtOnce ==
    /\ [](fs.answers # << >> /\ OtherError(LastAnswer) =>
            /\ fs.pc \in {"answered", "done"}
            /\ fs.calls = Len(fs.answers)
            /\ Len(fs.sleeps) = fs.calls - 1
            /\ fs.pc = "done" =>
                  fs.raised = "CredentialRetrievalError" /\ fs.returned = NoCreds)
    /\ [][fs.pc = "answered" /\ OtherError(LastAnswer) =>
            /\ fs'.pc = "done"
            /\ fs'.sleeps = fs.sleeps /\ fs'.calls = fs.calls]_vars

\* C13 witness: after two throttled attempts the third attempt met
\* AccessDeniedException and the call has failed.
C13_Witness ==
    /\ fs.pc = "done" /\ fs.calls = 3
    /\ Throttled(fs.answers[1]) /\ Throttled(fs.answers[2])
    /\ fs.answers[3].kind = "ClientError" /\ fs.answers[3].code = "AccessDeniedException"
    /\ fs.raised = "CredentialRetrievalError"

\* C14: whatever the store answers, fetch_service_account ends after at most
\* three calls of the store and two sleeps, and ends by returning a
\* JSON-object payload or by raising CredentialRetrievalError; it raises
\* CredentialRetrievalError when all three attempts are throttled, when the
\* secret has neither a string nor a binary value, and when the payload is
\* not a JSON object.
C14_EndsWithPayloadOrRetrievalError ==
    /\ fs.calls <= 3 /\ Len(fs.sleeps) <= 2
    /\ fs.pc = "done" =>
          /\ \/ fs.raised = "none" /\ fs.returned \in Payloads
             \/ fs.raised = "CredentialRetrievalError" /\ fs.returned = NoCreds
          /\ (fs.calls = 3 /\ Throttled(LastAnswer)) => fs.raised = "CredentialRetrievalError"
          /\ (/\ LastAnswer.kind = "response"
              /\ LastAnswer.SecretString = Missing
              /\ LastAnswer.SecretBinary = Missing) => fs.raised = "CredentialRetrievalError"
          /\ (LastAnswer.kind = "response" /\ ~HoldsJsonObject(LastAnswer)) =>
                fs.raised = "CredentialRetrievalError"

\* C15: close is idempotent.  A close that finds the handle cleared changes
\* nothing of the service and raises nothing; a close that finds a handle
\* finds it live (not closed before), closes it and clears it; after close
\* returns the service holds no handle, and only a refresh_client that
\* installs one changes that.
C15_CloseIsIdempotent ==
    /\ [][\A p \in Procs :
            pc[p] = "c_crit" /\ pc'[p] = "done" =>
              /\ client' = NoHandle
              /\ exc'[p] = "none"
              /\ client = NoHandle => service' = service
              /\ client # NoHandle =>
                    /\ IsLive(client)
                    /\ hstate' = [hstate EXCEPT ![client] = "closed"]]_vars
    /\ [][\A h \in Handles : IsClosed(h) => hstate'[h] = "closed"]_vars
    /\ [][client = NoHandle /\ client' # NoHandle =>
            \E p \in Procs : pc[p] = "r_swap" /\ pc'[p] = "done"]_vars

\* C15 witness: two closes have returned, and the one handle ever built is
\* closed: the second close found the handle cleared.
C15_Witness ==
    /\ \A p \in Procs : op[p] = "shutdown" /\ pc[p] = "done" /\ exc[p] = "none"
    /\ client = NoHandle
    /\ Cardinality({h \in Handles : IsClosed(h)}) = 1
    /\ Cardinality({h \in Handles : hstate[h] = "unborn"}) = MaxHandles - 1

\* C16: a get_table_schema or execute_query that finds no handle installed
\* fails with QueryExecutionError and issues no remote call, and its tool
\* answers SCHEMA_ERROR, respectively QUERY_FAILURE; no remote call is ever
\* made without a handle; a tool called while no service exists answers
\* SCHEMA_ERROR, respectively (for valid input) QUERY_FAILURE, without a lookup.
C16_NoHandleIsQueryExecutionError ==
    /\ [](\A p \in Procs :
            pc[p] \in {"s_lookup", "q_submit", "q_iter", "q_final"} => cl[p] # NoHandle)
    /\ [][\A p \in Procs :
            pc[p] = "rc_read" /\ pc'[p] # "rc_read" /\ client = NoHandle =>
              /\ pc'[p] = "done"
              /\ q'[p].raised = "QueryExecutionError"
              /\ q'[p].submits = 0 /\ q'[p].refreshes = 0 /\ q'[p].remote = "none"
              /\ cl'[p] = NoHandle
              /\ exc'[p] = "none"
              /\ resp'[p] = [data |-> FALSE,
                             error |-> IF op[p] = "tool_schema"
                                       THEN "SCHEMA_ERROR" ELSE "QUERY_FAILURE"]]_vars
    /\ [][\A p \in Procs :
            pc[p] = "idle" /\ ~BIGQUERY /\ op'[p] \in {"tool_schema", "tool_query"} =>
              /\ pc'[p] = "done"
              /\ q'[p].lookups = 0 /\ q'[p].submits = 0
              /\ op'[p] = "tool_schema" => resp'[p] = [data |-> FALSE, error |-> "SCHEMA_ERROR"]
              /\ (op'[p] = "tool_query" /\ q'[p].sql_ok /\ q'[p].rows_limit > 0) =>
                    resp'[p] = [data |-> FALSE, error |-> "QUERY_FAILURE"]]_vars

\* C16 witness: after a close, an execute_query and a get_table_schema have
\* each looked the handle up once, found none, and answered with their code.
C16_Witness ==
    /\ BIGQUERY /\ client = NoHandle /\ \E h \in Handles : IsClosed(h)
    /\ \E p \in Procs :
          /\ op[p] = "tool_query" /\ pc[p] = "done"
          /\ q[p].lookups = 1 /\ q[p].submits = 0
          /\ q[p].raised = "QueryExecutionError" /\ resp[p].error = "QUERY_FAILURE"
    /\ \E p \in Procs :
          /\ op[p] = "tool_schema" /\ pc[p] = "done"
          /\ q[p].lookups = 1 /\ q[p].remote = "none"
          /\ q[p].raised = "QueryExecutionError" /\ resp[p].error = "SCHEMA_ERROR"

\* C17: a get_table_schema tool call whose table the warehouse reports not
\* found answers TABLE_NOT_FOUND without data; one whose lookup fails in any
\* other way answers SCHEMA_ERROR; TABLE_NOT_FOUND is answered for no other
\* reason than a table not found.
C17_TableNotFoundCode ==
    \A p \in Procs :
        op[p] = "tool_schema" /\ pc[p] = "done" =>
            /\ q[p].remote = "NotFound" =>
                  resp[p].error = "TABLE_NOT_FOUND" /\ ~resp[p].data
            /\ q[p].remote \in {"Unauthorized", "Forbidden", "GoogleAPICallError"} =>
                  resp[p].error = "SCHEMA_ERROR" /\ ~resp[p].data
            /\ resp[p].error = "TABLE_NOT_FOUND" => q[p].remote = "NotFound"
            /\ q[p].remote = "ok" => resp[p].data /\ resp[p].error = "none"

\* C17 witness: of two lookups through the same live handle one met NotFound
\* and the other another GoogleAPICallError.
C17_Witness ==
    /\ client # NoHandle /\ IsLive(client)
    /\ \E p \in Procs :
          /\ op[p] = "tool_schema" /\ pc[p] = "done"
          /\ q[p].remote = "NotFound" /\ resp[p].error = "TABLE_NOT_FOUND"
    /\ \E p \in Procs :
          /\ op[p] = "tool_schema" /\ pc[p] = "done"
          /\ q[p].remote = "GoogleAPICallError" /\ resp[p].error = "SCHEMA_ERROR"

\* The text of a call between its first and its last non-blank character, and
\* its first word in lower case, read off the text by position.
Blank(c) == c \in {" ", "\t", "\n"}
AllBlank(x) == \A i \in 1..Len(x) : Blank(x[i])
FirstInk(x) == CHOOSE i \in 1..Len(x) : ~Blank(x[i]) /\ \A j \in 1..(i - 1) : Blank(x[j])
LastInk(x) == CHOOSE i \in 1..Len(x) : ~Blank(x[i]) /\ \A j \in (i + 1)..Len(x) : Blank(x[j])
TrimmedText(x) == IF AllBlank(x) THEN << >> ELSE SubSeq(x, FirstInk(x), LastInk(x))
FirstWord(x) ==
    LET a == FirstInk(x)
        e == CHOOSE j \in a..Len(x) :
                /\ \A k \in a..j : ~Blank(x[k])
                /\ j = Len(x) \/ Blank(x[j + 1])
    IN  [k \in 1..(e - a + 1) |-> lower_char(x[a + k - 1])]
ValidateApplied == pure.fn = "validate_sql_query" /\ pure.applied

\* C18: validate_sql_query refuses an empty or blank text as empty; any other
\* text it classifies by the lower-cased first word of the trimmed text,
\* before it looks at semicolons: a prohibited word gives the read-only
\* violation, a word of neither set the "must start with" violation, and an
\* allowed word neither of the three.
C18_ClassifiedByFirstToken ==
    ValidateApplied =>
        LET x == pure.sql_query
            v == pure.validated
        IN  /\ AllBlank(x) => ~v.ok /\ v.error = "SQL query cannot be empty"
            /\ ~AllBlank(x) =>
                  /\ FirstWord(x) \in PROHIBITED_PREFIXES =>
                        /\ ~v.ok
                        /\ v.error = "Only read-only queries are allowed (SELECT/WITH/EXPLAIN)."
                  /\ FirstWord(x) \notin PROHIBITED_PREFIXES \cup READ_ONLY_PREFIXES =>
                        /\ ~v.ok
                        /\ v.error = "SQL must start with SELECT, WITH, or EXPLAIN for safety."
                  /\ FirstWord(x) \in READ_ONLY_PREFIXES =>
                        v.error \notin
                          {"SQL query cannot be empty",
                           "Only read-only queries are allowed (SELECT/WITH/EXPLAIN).",
                           "SQL must start with SELECT, WITH, or EXPLAIN for safety."}

\* C18 witness: a text of leading blanks, DROP in capitals and a semicolon in
\* its middle was refused as not read-only.
C18_Witness ==
    /\ ValidateApplied
    /\ pure.sql_query # << >> /\ Blank(pure.sql_query[1])
    /\ \E i \in 1..Len(pure.sql_query) : pure.sql_query[i] = "D"
    /\ \E i \in 1..(Len(pure.sql_query) - 1) : pure.sql_query[i] = ";"
    /\ pure.validated.error = "Only read-only queries are allowed (SELECT/WITH/EXPLAIN)."

WithoutFinalSemicolon(t) == IF t[Len(t)] = ";" THEN SubSeq(t, 1, Len(t) - 1) ELSE t
AllowedApplied ==
    ValidateApplied /\ ~AllBlank(pure.sql_query)
      /\ FirstWord(pure.sql_query) \in READ_ONLY_PREFIXES

\* C19, as the claim states it: a text whose first word is allowed is refused
\* when a semicolon stands anywhere but at the end of the trimmed text, and
\* otherwise the trimmed text without its final semicolon is returned, in its
\* own case and free of semicolons.
C19_ReturnsTrimmedWithoutSemicolon ==
    AllowedApplied =>
        LET t == TrimmedText(pure.sql_query)
            v == pure.validated
        IN  IF \E i \in 1..(Len(t) - 1) : t[i] = ";"
            THEN ~v.ok /\ v.error = "Multiple SQL statements are not supported"
            ELSE /\ v.ok
                 /\ v.sql = WithoutFinalSemicolon(t)
                 /\ \A i \in 1..Len(v.sql) : v.sql[i] # ";"

\* C19, amended: as above, but what is returned is the trimmed text without
\* its final semicolon, trimmed once more.
C19_ReturnsRetrimmedWithoutSemicolon ==
    AllowedApplied =>
        LET t == TrimmedText(pure.sql_query)
            v == pure.validated
        IN  IF \E i \in 1..(Len(t) - 1) : t[i] = ";"
            THEN ~v.ok /\ v.error = "Multiple SQL statements are not supported"
            ELSE /\ v.ok
                 /\ v.sql = TrimmedText(WithoutFinalSemicolon(t))
                 /\ \A i \in 1..Len(v.sql) : v.sql[i] # ";"

\* C19 witness: an accepted text in capitals whose final semicolon follows a
\* blank, so that the text returned is two characters shorter than the
\* trimmed text.
C19_Witness ==
    /\ AllowedApplied /\ pure.validated.ok
    /\ Len(pure.validated.sql) = Len(TrimmedText(pure.sql_query)) - 2
    /\ pure.validated.sql[1] = "S"

TableRefApplied == pure.fn = "_build_table_reference" /\ pure.applied
HasDot(x) == \E i \in 1..Len(x) : x[i] = "."

\* C20, as the claim states it: a dataset id that holds a dot is used as it
\* is, giving dataset_id.table; a bare one is qualified, giving
\* default_project.dataset_id.table.
C20_QualifiedIdUsedVerbatim ==
    TableRefApplied =>
        pure.table_ref =
            IF HasDot(pure.dataset_id)
            THEN pure.dataset_id \o <<".">> \o pure.table_name
            ELSE pure.default_project \o <<".">> \o pure.dataset_id \o <<".">> \o pure.table_name

\* C20, amended: the dataset id is first freed of its backticks and of the
\* blanks around it; if a dot is left in it, it is used as it is, giving
\* id.table, and otherwise it is qualified, giving default_project.id.table;
\* nothing is prepended to an id that holds a dot.
C20_SanitizedIdUsedVerbatim ==
    TableRefApplied =>
        LET id == TrimmedText(SelectSeq(pure.dataset_id, LAMBDA c : c # Backtick))
        IN  /\ HasDot(id) =>
                  /\ pure.table_ref = id \o <<".">> \o pure.table_name
                  /\ Len(pure.table_ref) = Len(id) + 1 + Len(pure.table_name)
            /\ ~HasDot(id) =>
                  pure.table_ref =
                    pure.default_project \o <<".">> \o id \o <<".">> \o pure.table_name
            /\ \A i \in 1..Len(pure.table_ref) : pure.table_ref[i] # Backtick

\* C20 witness: the quoted id p.d, with default project dp, gave p.d.t.
C20_Witness ==
    /\ TableRefApplied
    /\ pure.dataset_id = <<Backtick, "p", ".", "d", Backtick>>
    /\ pure.default_project = <<"d", "p">>
    /\ pure.table_ref = <<"p", ".", "d", ".", "t">>

\* The positions at which a task is inside `with self._client_lock`, and those
\* at which it waits for a remote answer (secret store or warehouse).
InCriticalSection(p) == pc[p] \in {"rc_read", "r_swap", "c_crit"}
InRemoteCall(p) == pc[p] \in {"r_load", "s_lookup", "q_submit", "q_iter", "q_final"}

\* C21: the lock is held only while the handle is read, swapped or closed.
\* Its holder is inside one of the three critical sections, never in a remote
\* call, and the holder's next step releases it: a refresh_client or close
\* that wants the lock never waits for a query, a lookup or a fetch to end.
C21_LockOnlyAroundHandle ==
    /\ [](\A p \in Procs :
            /\ client_lock = p => InCriticalSection(p)
            /\ InRemoteCall(p) => client_lock # p)
    /\ [][\A p \in Procs :
            client_lock = p /\ pc'[p] # pc[p] => client_lock' = NoOwner]_vars

\* C21 witness: while an execute_query iterates its rows, a refresh_client has
\* taken the lock and is about to swap the handle.
C21_Witness ==
    \E p, r \in Procs :
        /\ op[p] = "tool_query" /\ pc[p] = "q_iter" /\ q[p].pos > 0
        /\ op[r] = "refresh_client" /\ pc[r] = "r_swap" /\ client_lock = r

\* C22: a refresh_client that fails, at the credential loader
\* (CredentialRefreshError) or for want of a project (ConfigurationError),
\* changes nothing of the service: the installed handle, its being open, and
\* the recorded payload are what they were, at the failure and at the steps
\* of the call before it.
C22_FailedRefreshChangesNothing ==
    /\ [][\A p \in Procs :
            pc[p] \in {"r_load", "r_build"} /\ pc'[p] = "done" =>
              /\ client' = client
              /\ credentials_info' = credentials_info
              /\ hstate' = hstate /\ hcreds' = hcreds
              /\ op[p] \in {"refresh_client", "lifespan"} =>
                    exc'[p] = IF pc[p] = "r_load" THEN "CredentialRefreshError"
                                                 ELSE "ConfigurationError"]_vars
    /\ [][\A p \in Procs :
            pc[p] = "r_load" /\ pc'[p] # pc[p] => service' = service]_vars

\* C22 witness: a refresh_client has failed with ConfigurationError while a
\* query iterates its rows on the installed handle, which is live and
\* recorded with its own payload.
C22_Witness ==
    \E p, r \in Procs :
        /\ op[p] = "refresh_client" /\ pc[p] = "done"
        /\ exc[p] = "ConfigurationError"
        /\ op[r] = "tool_query" /\ pc[r] = "q_iter" /\ q[r].pos > 0
        /\ cl[r] = client /\ IsLive(client)
        /\ credentials_info = hcreds[client]

\* C23: get_table_schema never starts a refresh and none of its steps changes
\* the installed handle, the recorded payload or a handle's being open,
\* whatever the lookup answers (401 and 403 included); a step of
\* execute_query changes the installed handle only as the swap of the refresh
\* that followed its one submission's failure with 401 or 403.
C23_OnlyAuthFailedQueryRefreshes ==
    /\ [](\A p \in Procs :
            op[p] = "tool_schema" =>
              /\ pc[p] \in {"rc_lock", "rc_read", "s_lookup", "done"}
              /\ q[p].refreshes = 0)
    /\ [][\A p \in Procs :
            (op[p] = "tool_schema" \/ op'[p] = "tool_schema") /\ pc'[p] # pc[p] =>
              /\ client' = client
              /\ credentials_info' = credentials_info
              /\ hstate' = hstate /\ hcreds' = hcreds]_vars
    /\ [][\A p \in Procs :
            (op[p] = "tool_query" \/ op'[p] = "tool_query") /\ pc'[p] # pc[p]
              /\ (client' # client \/ credentials_info' # credentials_info) =>
                /\ pc[p] = "r_swap"
                /\ q[p].failed_in = "submit" /\ q[p].err_code \in {401, 403}
                /\ q[p].submits = 1
                /\ client' = newcl[p]
                /\ q'[p].refresh_outcome = "ok"]_vars

\* C23 witness: a lookup refused with 401 has ended with SCHEMA_ERROR on the
\* handle that is still installed and live, the handle that an execute_query
\* installed after its submission was refused with 401 or 403.
C23_Witness ==
    \E p, r \in Procs :
        /\ op[p] = "tool_schema" /\ pc[p] = "done"
        /\ q[p].remote = "Unauthorized" /\ resp[p].error = "SCHEMA_ERROR"
        /\ op[r] = "tool_query" /\ pc[r] = "done"
        /\ q[r].err_code \in {401, 403} /\ q[r].refresh_outcome = "ok"
        /\ client # NoHandle /\ IsLive(client)
        /\ \E h \in Handles : IsClosed(h)

\* An execute_query tool call whose service call has begun.
ReachedService(p) ==
    op[p] = "tool_query" /\ (pc[p] # "done" \/ q[p].lookups >= 1)

\* C24: of an execute_query tool call that reaches the service, the max_rows
\* the service is called with lies in 1..default_max_rows: it is
\* default_max_rows when the tool was given none or more than that, and the
\* value given otherwise; a call given a value <= 0 has ended with
\* INVALID_SQL without a lookup or a submission.
C24_ServiceMaxRowsWithinLimit ==
    LET p == SoloProc
        given == pure.max_rows
        limit == env.default_max_rows
    IN  (pure.fn = "execute_query" /\ op[p] = "tool_query") =>
            /\ ReachedService(p) =>
                  /\ q[p].max_rows >= 1 /\ q[p].max_rows <= limit
                  /\ given = None => q[p].max_rows = limit
                  /\ (given # None /\ given[1] > limit) => q[p].max_rows = limit
                  /\ (given # None /\ given[1] <= limit) => q[p].max_rows = given[1]
            /\ (given # None /\ given[1] <= 0) =>
                  /\ pc[p] = "done"
                  /\ resp[p].error = "INVALID_SQL" /\ ~resp[p].data
                  /\ q[p].lookups = 0 /\ q[p].submits = 0

\* C24 witness: a call given one more than default_max_rows iterates the rows
\* of its query with max_rows = default_max_rows.
C24_Witness ==
    /\ pure.fn = "execute_query"
    /\ pure.max_rows = Some(env.default_max_rows + 1)
    /\ op[SoloProc] = "tool_query" /\ pc[SoloProc] = "q_iter"
    /\ q[SoloProc].pos > 0
    /\ q[SoloProc].max_rows = env.default_max_rows

\* C25: whenever the service holds a handle, the recorded payload is the one
\* that handle was built from; the recorded payload changes only in the
\* critical section of a refresh_client, in the step that installs that
\* call's own handle together with that call's own payload; and the handle
\* changes only inside a critical section of refresh_client or close.
C25_HandleAndPayloadInstalledTogether ==
    /\ [](client # NoHandle => credentials_info = hcreds[client])
    /\ [][credentials_info' # credentials_info =>
            \E p \in Procs :
                /\ pc[p] = "r_swap" /\ client_lock = p
                /\ client' = newcl[p] /\ client' # client
                /\ credentials_info' = newcreds[p]
                /\ hcreds[newcl[p]] = newcreds[p]]_vars
    /\ [][client' # client =>
            \E p \in Procs : pc[p] \in {"r_swap", "c_crit"} /\ client_lock = p]_vars

\* C25 witness: a handle built from one payload is installed with that
\* payload on record after a handle built from the other payload was
\* replaced, while another refresh_client waits for the lock with a handle
\* built from the other payload.
C25_Witness ==
    /\ client # NoHandle /\ IsLive(client)
    /\ credentials_info = hcreds[client]
    /\ \E h \in Handles : IsClosed(h) /\ hcreds[h] # credentials_info
    /\ \E p \in Procs :
         /\ op[p] = "refresh_client" /\ pc[p] = "r_lock"
         /\ newcreds[p] # credentials_info
         /\ hcreds[newcl[p]] = newcreds[p]

====
